---- MODULE Spec2Model ----
(***************************************************************************)
(* Model of matrix_controller.py: the signed-byte codec                    *)
(* (get_binary_from_int8 / get_int8_from_binary) and the Controller's      *)
(* register accessors over an I2C device that stores what is written.      *)
(***************************************************************************)
EXTENDS Integers, Sequences, FiniteSets, TLC

VARIABLES mem, call, log, ret,
          cstage, cin, cmid, cout,
          serialized, tpc, tval, tcmd, expected, clobbered

vars == <<mem, call, log, ret, cstage, cin, cmid, cout,
          serialized, tpc, tval, tcmd, expected, clobbered>>
callVars == <<mem, call, log, ret>>
codecVars == <<cstage, cin, cmid, cout>>
threadVars == <<serialized, tpc, tval, tcmd, expected, clobbered>>

\* ---------------------------------------------------------------- bounds
\* how far outside its documented range an argument is drawn
ArgMargin == 1
\* number of caller threads sharing one Controller
NumThreads == 2
\* servo channels that the concurrent callers command (the others get -1)
ConcChannels == 1

\* ------------------------------------------------------- bit arithmetic
Byte == 0..255

RECURSIVE BitAnd(_, _)
BitAnd(a, b) ==
    IF a = 0 \/ b = 0 THEN 0
    ELSE (IF a % 2 = 1 /\ b % 2 = 1 THEN 1 ELSE 0) + 2 * BitAnd(a \div 2, b \div 2)

RECURSIVE BitOr(_, _)
BitOr(a, b) ==
    IF a = 0 THEN b
    ELSE IF b = 0 THEN a
    ELSE (IF a % 2 = 1 \/ b % 2 = 1 THEN 1 ELSE 0) + 2 * BitOr(a \div 2, b \div 2)

RECURSIVE BitXor(_, _)
BitXor(a, b) ==
    IF a = 0 THEN b
    ELSE IF b = 0 THEN a
    ELSE (IF a % 2 # b % 2 THEN 1 ELSE 0) + 2 * BitXor(a \div 2, b \div 2)

RECURSIVE Pow2(_)
Pow2(n) == IF n = 0 THEN 1 ELSE 2 * Pow2(n - 1)

\* Python's a << n
Shl(a, n) == a * Pow2(n)

\* Python's int & mask, int a of any sign (unbounded two's complement),
\* mask in 0..255: only the low eight bits of a take part
PyAnd(a, mask) == BitAnd(a % 256, mask)

\* Python's int ^ mask, int a of any sign, mask in 0..255: the bits above
\* the low eight are kept, the low eight are exclusive-or'ed
PyXor(a, mask) == (a - (a % 256)) + BitXor(a % 256, mask)

\* Python's int(bool)
B2I(b) == IF b THEN 1 ELSE 0

\* ---------------------------------------------------------------- codec
get_binary_from_int8(num) ==
    IF num >= 0 THEN num
    ELSE LET n1 == PyXor(num, 255)
             n2 == n1 + 1
         IN  PyAnd(n2, 255)

\* the statement "num ^ 0xFF" on line 35 discards its value
get_int8_from_binary(num) ==
    IF PyAnd(num, 128) = 0 THEN num
    ELSE LET n1 == num - 1
         IN  -n1

\* ------------------------------------------------------------ registers
servo_registers == <<70, 72, 80, 82>>
motor_registers == <<78, 88, 98, 108>>

REG_STATUS == 65
REG_TIMEOUT == 66
REG_BATTERY == 67
REG_START == 68
REG_SERVO_ENABLE == 69

\* the registers the accessors address: 0x41 .. 0x6C + 9
Regs == 65..117

\* ------------------------------------------------------------------ bus
RdEntry(reg, val) == [t |-> "read", reg |-> reg, val |-> val]
WrEntry(reg, val) == [t |-> "write", reg |-> reg, val |-> val]
BlkEntry(reg, len, data) == [t |-> "read_block", reg |-> reg, len |-> len, data |-> data]

read_byte_data(m, reg) == m[reg]
write_byte_data(m, reg, val) == [m EXCEPT ![reg] = val]
read_i2c_block_data(m, reg, len) == [i \in 1..len |-> m[reg + i - 1]]

Returned(v) == [kind |-> "value", val |-> v]
ReturnedNone == [kind |-> "none", val |-> 0]
ValueError == [kind |-> "ValueError", val |-> 0]

NoCall == [op |-> "none", args |-> <<>>]

\* ---------------------------------------------------- argument domains
Channels == (1 - ArgMargin)..(4 + ArgMargin)
TimeoutArgs == (-1 - ArgMargin)..(255 + ArgMargin)
ServoSpeedArgs == (-1 - ArgMargin)..(255 + ArgMargin)
ServoTargetArgs == (-1 - ArgMargin)..(250 + ArgMargin)
MotorModeArgs == (0 - ArgMargin)..(3 + ArgMargin)
MotorSpeedArgs == (-100 - ArgMargin)..(100 + ArgMargin)
ServoElems == (-1 - ArgMargin)..(1 + ArgMargin)
ServoLists ==
    UNION {[1..n -> {-1, 0, 1}] : n \in ((4 - ArgMargin)..(4 + ArgMargin)) \ {4}}
      \cup [1..4 -> ServoElems]

\* ------------------------------------------------------ the accessors
\* set_servos' loop over range(4), from index i (0-based) on: the mask
\* after the loop, or -1 when an element is rejected
\* the loop with line 145 clearing by "val &= (1 << index)"
RECURSIVE ServoLoopNoInvert(_, _, _)
ServoLoopNoInvert(val, servos, i) ==
    IF i = 4 THEN val
    ELSE LET s == servos[i + 1] IN
         IF ~(-1 <= s /\ s <= 1) THEN -1
         ELSE IF s = -1 THEN ServoLoopNoInvert(val, servos, i + 1)
         ELSE IF s = 0 THEN ServoLoopNoInvert(BitAnd(val, Shl(1, i)), servos, i + 1)
         ELSE ServoLoopNoInvert(BitOr(val, Shl(1, i)), servos, i + 1)

\* the loop with line 144's "continue" missing, so that -1 clears like 0
RECURSIVE ServoLoopNoSkip(_, _, _)
ServoLoopNoSkip(val, servos, i) ==
    IF i = 4 THEN val
    ELSE LET s == servos[i + 1] IN
         IF ~(-1 <= s /\ s <= 1) THEN -1
         ELSE IF s <= 0 THEN ServoLoopNoSkip(BitAnd(val, BitXor(Shl(1, i), 255)), servos, i + 1)
         ELSE ServoLoopNoSkip(BitOr(val, Shl(1, i)), servos, i + 1)

RECURSIVE ServoLoop(_, _, _)
ServoLoop(val, servos, i) ==
    IF i = 4 THEN val
    ELSE LET s == servos[i + 1] IN
         IF ~(-1 <= s /\ s <= 1) THEN -1
         ELSE IF s = -1 THEN ServoLoop(val, servos, i + 1)
         ELSE IF s = 0 THEN ServoLoop(BitAnd(val, BitXor(Shl(1, i), 255)), servos, i + 1)
         ELSE ServoLoop(BitOr(val, Shl(1, i)), servos, i + 1)

ServoBools(val) == [i \in 1..4 |-> BitAnd(val, Shl(1, i - 1)) > 0]

ServoSpeedReg(servo) == servo_registers[servo]
\* line 199/200 without the "+ 1"
ServoTargetRegNoOffset(servo) == servo_registers[servo]
ServoTargetReg(servo) == servo_registers[servo] + 1
MotorSpeedReg(motor) == motor_registers[motor] + 8
MotorModeReg(motor) == motor_registers[motor] + 9

\* line 259 with the shifts of invert and pending exchanged
ModeByteSwapped(invert, pending, reset, mode) ==
    Shl(B2I(invert), 3) + Shl(B2I(pending), 4) + Shl(B2I(reset), 2) + mode

ModeByte(invert, pending, reset, mode) ==
    Shl(B2I(invert), 4) + Shl(B2I(pending), 3) + Shl(B2I(reset), 2) + mode

\* what get_motor_status returns on register contents m
MotorStatus(m, motor) ==
    LET base == motor_registers[motor]
        position == read_i2c_block_data(m, base, 4)
        target == read_i2c_block_data(m, base + 4, 4)
        speed == get_int8_from_binary(read_byte_data(m, base + 5))
        status == read_byte_data(m, base + 9)
    IN  <<position, target, speed,
          BitAnd(status, 128) # 0, BitAnd(status, 16) # 0,
          BitAnd(status, 8) # 0, BitAnd(status, 3)>>

Idle == call.op = "none"

get_status ==
    /\ Idle
    /\ call' = [op |-> "get_status", args |-> <<>>]
    /\ LET status == read_byte_data(mem, REG_STATUS)
           level == read_byte_data(mem, REG_BATTERY)
       IN  /\ log' = <<RdEntry(REG_STATUS, status), RdEntry(REG_BATTERY, level)>>
           /\ ret' = Returned(<<BitAnd(status, 2) # 0, BitAnd(status, 1) # 0, level>>)
    /\ mem' = mem

set_timeout(seconds) ==
    /\ Idle
    /\ call' = [op |-> "set_timeout", args |-> <<seconds>>]
    /\ IF ~(-1 <= seconds /\ seconds <= 255)
       THEN /\ ret' = ValueError
            /\ log' = <<>>
            /\ mem' = mem
       ELSE LET m1 == IF seconds > -1 THEN write_byte_data(mem, REG_TIMEOUT, seconds) ELSE mem
                l1 == IF seconds > -1 THEN <<WrEntry(REG_TIMEOUT, seconds)>> ELSE <<>>
                v == read_byte_data(m1, REG_TIMEOUT)
            IN  /\ mem' = m1
                /\ log' = Append(l1, RdEntry(REG_TIMEOUT, v))
                /\ ret' = Returned(v)

start_motors ==
    /\ Idle
    /\ call' = [op |-> "start_motors", args |-> <<>>]
    /\ mem' = write_byte_data(mem, REG_START, 1)
    /\ log' = <<WrEntry(REG_START, 1)>>
    /\ ret' = ReturnedNone

set_servos(servos) ==
    /\ Idle
    /\ call' = [op |-> "set_servos", args |-> <<servos>>]
    /\ LET val0 == read_byte_data(mem, REG_SERVO_ENABLE)
           l0 == <<RdEntry(REG_SERVO_ENABLE, val0)>>
       IN  IF Len(servos) # 4
           THEN /\ ret' = ValueError
                /\ log' = l0
                /\ mem' = mem
           ELSE LET val1 == ServoLoop(val0, servos, 0) IN
                IF val1 = -1
                THEN /\ ret' = ValueError
                     /\ log' = l0
                     /\ mem' = mem
                ELSE LET m1 == write_byte_data(mem, REG_SERVO_ENABLE, val1)
                         val2 == read_byte_data(m1, REG_SERVO_ENABLE)
                     IN  /\ mem' = m1
                         /\ log' = l0 \o <<WrEntry(REG_SERVO_ENABLE, val1),
                                           RdEntry(REG_SERVO_ENABLE, val2)>>
                         /\ ret' = Returned(ServoBools(val2))

set_servo_speed(servo, speed) ==
    /\ Idle
    /\ call' = [op |-> "set_servo_speed", args |-> <<servo, speed>>]
    /\ IF ~(1 <= servo /\ servo <= 4) \/ ~(-1 <= speed /\ speed <= 255)
       THEN /\ ret' = ValueError
            /\ log' = <<>>
            /\ mem' = mem
       ELSE LET reg == ServoSpeedReg(servo)
                m1 == IF speed > -1 THEN write_byte_data(mem, reg, speed) ELSE mem
                l1 == IF speed > -1 THEN <<WrEntry(reg, speed)>> ELSE <<>>
                v == read_byte_data(m1, reg)
            IN  /\ mem' = m1
                /\ log' = Append(l1, RdEntry(reg, v))
                /\ ret' = Returned(v)

set_servo_target(servo, target) ==
    /\ Idle
    /\ call' = [op |-> "set_servo_target", args |-> <<servo, target>>]
    /\ IF ~(1 <= servo /\ servo <= 4) \/ ~(-1 <= target /\ target <= 250)
       THEN /\ ret' = ValueError
            /\ log' = <<>>
            /\ mem' = mem
       ELSE LET reg == ServoTargetReg(servo)
                m1 == IF target > -1 THEN write_byte_data(mem, reg, target) ELSE mem
                l1 == IF target > -1 THEN <<WrEntry(reg, target)>> ELSE <<>>
                v == read_byte_data(m1, reg)
            IN  /\ mem' = m1
                /\ log' = Append(l1, RdEntry(reg, v))
                /\ ret' = Returned(v)

get_motor_status(motor) ==
    /\ Idle
    /\ call' = [op |-> "get_motor_status", args |-> <<motor>>]
    /\ mem' = mem
    /\ IF ~(1 <= motor /\ motor <= 4)
       THEN /\ ret' = ValueError
            /\ log' = <<>>
       ELSE LET base == motor_registers[motor] IN
            /\ log' = <<BlkEntry(base, 4, read_i2c_block_data(mem, base, 4)),
                        BlkEntry(base + 4, 4, read_i2c_block_data(mem, base + 4, 4)),
                        RdEntry(base + 5, read_byte_data(mem, base + 5)),
                        RdEntry(base + 9, read_byte_data(mem, base + 9))>>
            /\ ret' = Returned(MotorStatus(mem, motor))

set_motor_mode(motor, invert, pending, reset, mode) ==
    /\ Idle
    /\ call' = [op |-> "set_motor_mode", args |-> <<motor, invert, pending, reset, mode>>]
    /\ IF ~(1 <= motor /\ motor <= 4) \/ ~(0 <= mode /\ mode <= 3)
       THEN /\ ret' = ValueError
            /\ log' = <<>>
            /\ mem' = mem
       ELSE LET b == ModeByte(invert, pending, reset, mode) IN
            /\ mem' = write_byte_data(mem, MotorModeReg(motor), b)
            /\ log' = <<WrEntry(MotorModeReg(motor), b)>>
            /\ ret' = ReturnedNone

set_motor_speed(motor, speed) ==
    /\ Idle
    /\ call' = [op |-> "set_motor_speed", args |-> <<motor, speed>>]
    /\ IF ~(1 <= motor /\ motor <= 4) \/ ~(-100 <= speed /\ speed <= 100)
       THEN /\ ret' = ValueError
            /\ log' = <<>>
            /\ mem' = mem
       ELSE LET b == get_binary_from_int8(speed) IN
            /\ mem' = write_byte_data(mem, MotorSpeedReg(motor), b)
            /\ log' = <<WrEntry(MotorSpeedReg(motor), b)>>
            /\ ret' = ReturnedNone

\* device contents before the call: every register takes every byte value
\* over the seeds, and no two registers hold the same byte
DeviceContents == {[r \in Regs |-> (seed + r) % 256] : seed \in Byte}

CodecOff == /\ cstage = "off" /\ cin = 0 /\ cmid = 0 /\ cout = 0
ThreadsOff ==
    /\ serialized = TRUE
    /\ tpc = [t \in 1..NumThreads |-> "off"]
    /\ tval = [t \in 1..NumThreads |-> 0]
    /\ tcmd = [t \in 1..NumThreads |-> <<>>]
    /\ expected = <<>>
    /\ clobbered = FALSE

InitCall ==
    /\ mem \in DeviceContents
    /\ call = NoCall
    /\ log = <<>>
    /\ ret = ReturnedNone
    /\ CodecOff
    /\ ThreadsOff

NextCall ==
    /\ Idle
    /\ UNCHANGED <<codecVars, threadVars>>
    /\ \/ get_status
       \/ start_motors
       \/ \E seconds \in TimeoutArgs : set_timeout(seconds)
       \/ \E servos \in ServoLists : set_servos(servos)
       \/ \E servo \in Channels, speed \in ServoSpeedArgs : set_servo_speed(servo, speed)
       \/ \E servo \in Channels, target \in ServoTargetArgs : set_servo_target(servo, target)
       \/ \E motor \in Channels : get_motor_status(motor)
       \/ \E motor \in Channels, invert \in BOOLEAN, pending \in BOOLEAN,
             reset \in BOOLEAN, mode \in MotorModeArgs :
               set_motor_mode(motor, invert, pending, reset, mode)
       \/ \E motor \in Channels, speed \in MotorSpeedArgs : set_motor_speed(motor, speed)

SpecCall == InitCall /\ [][NextCall]_vars

\* ------------------------------------------------- codec round trips
InitCodec ==
    /\ mem = [r \in Regs |-> 0]
    /\ call = NoCall
    /\ log = <<>>
    /\ ret = ReturnedNone
    /\ cstage = "input"
    /\ cin \in -128..255
    /\ cmid = 0
    /\ cout = 0
    /\ ThreadsOff

Encode ==
    /\ cstage = "input"
    /\ cin \in -128..127
    /\ cmid' = get_binary_from_int8(cin)
    /\ cstage' = "encoded"
    /\ UNCHANGED <<cin, cout>>

DecodeEncoded ==
    /\ cstage = "encoded"
    /\ cout' = get_int8_from_binary(cmid)
    /\ cstage' = "encoded_decoded"
    /\ UNCHANGED <<cin, cmid>>

Decode ==
    /\ cstage = "input"
    /\ cin \in Byte
    /\ cmid' = get_int8_from_binary(cin)
    /\ cstage' = "decoded"
    /\ UNCHANGED <<cin, cout>>

EncodeDecoded ==
    /\ cstage = "decoded"
    /\ cout' = get_binary_from_int8(cmid)
    /\ cstage' = "decoded_encoded"
    /\ UNCHANGED <<cin, cmid>>

NextCodec ==
    /\ UNCHANGED <<callVars, threadVars>>
    /\ \/ Encode
       \/ DecodeEncoded
       \/ Decode
       \/ EncodeDecoded

SpecCodec == InitCodec /\ [][NextCodec]_vars

\* ------------------------------------- set_servos from several threads
Threads == 1..NumThreads

\* bit i (0-based) of a byte
Bit(x, i) == (x \div Pow2(i)) % 2

ConcCmds ==
    {c \in [1..4 -> {-1, 0, 1}] : \A i \in 1..4 : i > ConcChannels => c[i] = -1}

\* servo-enable masks the concurrent callers start from: every bit 0..3
\* takes both values, next to an equal and next to a different neighbour
ConcMasks == {0, 5, 10, 15}

AllIdle == \A t \in Threads : tpc[t] = "idle"

InitConc ==
    /\ \E m \in ConcMasks : mem = [r \in Regs |-> IF r = REG_SERVO_ENABLE THEN m ELSE 0]
    /\ call = NoCall
    /\ log = <<>>
    /\ ret = ReturnedNone
    /\ CodecOff
    /\ serialized \in BOOLEAN
    /\ tpc = [t \in Threads |-> "idle"]
    /\ tval = [t \in Threads |-> 0]
    /\ tcmd = [t \in Threads |-> <<>>]
    /\ expected = [i \in 0..3 |-> Bit(mem[REG_SERVO_ENABLE], i)]
    /\ clobbered = FALSE

\* lines 139-146: the read of 0x45 and the loop; a serializing caller
\* enters only while no other call is in progress. expected records, for
\* serialized callers, the most recent command other than -1 per channel
ServosRead(t, servos) ==
    /\ tpc[t] = "idle"
    /\ serialized => AllIdle
    /\ tval' = [tval EXCEPT ![t] = ServoLoop(read_byte_data(mem, REG_SERVO_ENABLE), servos, 0)]
    /\ tcmd' = [tcmd EXCEPT ![t] = servos]
    /\ tpc' = [tpc EXCEPT ![t] = "write"]
    /\ expected' = IF serialized
                   THEN [i \in 0..3 |-> IF servos[i + 1] = -1 THEN expected[i]
                                        ELSE servos[i + 1]]
                   ELSE expected
    /\ UNCHANGED <<mem, ret, clobbered, serialized>>

\* line 148: the write-back, after which the computed mask and the
\* argument are dead. clobbered records that the write changed a bit of a
\* channel for which this call was given -1
ServosWrite(t) ==
    /\ tpc[t] = "write"
    /\ mem' = write_byte_data(mem, REG_SERVO_ENABLE, tval[t])
    /\ tpc' = [tpc EXCEPT ![t] = "reread"]
    /\ clobbered' = (clobbered \/ \E i \in 0..3 :
                        /\ tcmd[t][i + 1] = -1
                        /\ Bit(tval[t], i) # Bit(mem[REG_SERVO_ENABLE], i))
    /\ tval' = [tval EXCEPT ![t] = 0]
    /\ tcmd' = [tcmd EXCEPT ![t] = <<>>]
    /\ UNCHANGED <<ret, expected, serialized>>

\* lines 149-151: the re-read and the return
ServosReread(t) ==
    /\ tpc[t] = "reread"
    /\ ret' = Returned(ServoBools(read_byte_data(mem, REG_SERVO_ENABLE)))
    /\ tpc' = [tpc EXCEPT ![t] = "idle"]
    /\ UNCHANGED <<mem, tval, tcmd, expected, clobbered, serialized>>

NextConc ==
    /\ UNCHANGED <<call, log, codecVars>>
    /\ \/ \E t \in Threads, servos \in ConcCmds : ServosRead(t, servos)
       \/ \E t \in Threads : ServosWrite(t)
       \/ \E t \in Threads : ServosReread(t)

SpecConc == InitConc /\ [][NextConc]_vars

\* =============================================================== claims
\* the 8-bit two's-complement byte of a signed value, and back
TwosComplement(v) == IF v >= 0 THEN v ELSE v + 256
SignedValue(b) == IF b < 128 THEN b ELSE b - 256

\* C1: for every v in [-128, 127], decoding the encoded value gives v back.
C1_DecodeEncodeRoundTrip == cstage = "encoded_decoded" => cout = cin

\* C2: for every byte b in [0, 255], encoding the decoded value gives b back.
C2_EncodeDecodeRoundTrip == cstage = "decoded_encoded" => cout = cin

ValidMotorSpeedCall ==
    /\ call.op = "set_motor_speed"
    /\ call.args[1] \in 1..4
    /\ call.args[2] \in -100..100

\* C3: a valid set_motor_speed(channel, speed) performs exactly one bus
\* write, to motor_registers[channel-1]+8, of the two's-complement byte of
\* speed (so different speeds give different bytes).
C3_MotorSpeedByte ==
    ValidMotorSpeedCall =>
        log = <<WrEntry(motor_registers[call.args[1]] + 8, TwosComplement(call.args[2]))>>

\* C4: the speed field returned by a valid get_motor_status(channel) is the
\* signed two's-complement value of the byte in motor_registers[channel-1]+5.
C4_MotorStatusSpeed ==
    (call.op = "get_motor_status" /\ call.args[1] \in 1..4) =>
        ret.kind = "value" /\ ret.val[3] = SignedValue(mem[motor_registers[call.args[1]] + 5])

\* the calls the documented ranges reject
InvalidCall ==
    \/ call.op = "set_timeout" /\ call.args[1] \notin -1..255
    \/ call.op = "set_servos" /\ (\/ Len(call.args[1]) # 4
                                  \/ \E i \in 1..Len(call.args[1]) :
                                        call.args[1][i] \notin {-1, 0, 1})
    \/ call.op = "set_servo_speed" /\ (call.args[1] \notin 1..4 \/ call.args[2] \notin -1..255)
    \/ call.op = "set_servo_target" /\ (call.args[1] \notin 1..4 \/ call.args[2] \notin -1..250)
    \/ call.op = "get_motor_status" /\ call.args[1] \notin 1..4
    \/ call.op = "set_motor_mode" /\ (call.args[1] \notin 1..4 \/ call.args[5] \notin 0..3)
    \/ call.op = "set_motor_speed" /\ (call.args[1] \notin 1..4 \/ call.args[2] \notin -100..100)

\* C5: a call with an out-of-range channel or value, or a list that is not
\* 4 long or has an element outside {-1,0,1}, fails with an argument error
\* and performs no bus read and no bus write.
C5_InvalidCallNoBus == InvalidCall => (ret = ValueError /\ log = <<>>)

ValidServosStep ==
    /\ call'.op = "set_servos"
    /\ call'.args[1] \in [1..4 -> {-1, 0, 1}]

\* C6: a valid set_servos(states) leaves in register 0x45, for i in 0..3,
\* bit i unchanged for -1, cleared for 0, set for 1, and bits 4..7
\* unchanged; it returns the booleans of bits 0..3 of the result.
C6_ServosReadModifyWrite ==
    [][(call.op = "none" /\ ValidServosStep) =>
         LET states == call'.args[1]
             before == mem[REG_SERVO_ENABLE]
             after == mem'[REG_SERVO_ENABLE]
         IN  /\ \A i \in 0..3 :
                   Bit(after, i) = IF states[i + 1] = -1 THEN Bit(before, i)
                                   ELSE states[i + 1]
             /\ after \div 16 = before \div 16
             /\ \A r \in Regs \ {REG_SERVO_ENABLE} : mem'[r] = mem[r]
             /\ ret' = Returned([i \in 1..4 |-> Bit(after, i - 1) = 1])]_vars

C6_Witness ==
    /\ call = [op |-> "set_servos", args |-> <<(<<1, -1, 0, -1>>)>>]
    /\ log = <<RdEntry(REG_SERVO_ENABLE, 166), WrEntry(REG_SERVO_ENABLE, 163),
               RdEntry(REG_SERVO_ENABLE, 163)>>
    /\ mem[REG_SERVO_ENABLE] = 163
    /\ ret = Returned(<<TRUE, TRUE, FALSE, FALSE>>)

\* the register a query-or-set accessor addresses, by the register map
AccessorReg(c) ==
    IF c.op = "set_timeout" THEN 66
    ELSE IF c.op = "set_servo_speed" THEN servo_registers[c.args[1]]
    ELSE servo_registers[c.args[1]] + 1

AccessorValue(c) == IF c.op = "set_timeout" THEN c.args[1] ELSE c.args[2]

ValidAccessorCall(c) ==
    \/ c.op = "set_timeout" /\ c.args[1] \in -1..255
    \/ c.op = "set_servo_speed" /\ c.args[1] \in 1..4 /\ c.args[2] \in -1..255
    \/ c.op = "set_servo_target" /\ c.args[1] \in 1..4 /\ c.args[2] \in -1..250

\* C7: a valid set_timeout / set_servo_speed / set_servo_target with value
\* -1 performs no bus write and returns the register's pre-existing
\* content; with a value >= 0 it performs one write of the value to the
\* register, then one read of the same register, and returns what was read.
C7_QueryOrSet ==
    [][(call.op = "none" /\ ValidAccessorCall(call')) =>
         LET reg == AccessorReg(call')
             value == AccessorValue(call')
         IN  IF value = -1
             THEN /\ log' = <<RdEntry(reg, mem[reg])>>
                  /\ ret' = Returned(mem[reg])
                  /\ mem' = mem
             ELSE /\ Len(log') = 2
                  /\ log'[1] = WrEntry(reg, value)
                  /\ log'[2] = RdEntry(reg, mem'[reg])
                  /\ ret' = Returned(log'[2].val)
                  /\ \A r \in Regs \ {reg} : mem'[r] = mem[r]]_vars

C7_Witness ==
    /\ call = [op |-> "set_servo_target", args |-> <<4, 250>>]
    /\ log = <<WrEntry(83, 250), RdEntry(83, 250)>>
    /\ ret = Returned(250)

\* C8: a valid set_motor_mode performs exactly one bus write, to
\* motor_registers[channel-1]+9, of (invert<<4)|(pending<<3)|(reset<<2)|mode,
\* and no bus read.
C8_MotorModeByte ==
    (call.op = "set_motor_mode" /\ call.args[1] \in 1..4 /\ call.args[5] \in 0..3) =>
        log = <<WrEntry(motor_registers[call.args[1]] + 9,
                        BitOr(BitOr(BitOr(Shl(B2I(call.args[2]), 4), Shl(B2I(call.args[3]), 3)),
                                    Shl(B2I(call.args[4]), 2)),
                              call.args[5]))>>

C8_Witness ==
    /\ call = [op |-> "set_motor_mode", args |-> <<1, TRUE, FALSE, TRUE, 3>>]
    /\ log = <<WrEntry(87, 23)>>
    /\ mem[87] = 23

\* C9: when the set_servos calls on one Controller are serialized, after
\* any sequence of valid calls each bit i in 0..3 of register 0x45 equals
\* the most recent command other than -1 given for channel i (its initial
\* value if none), and no write-back changes a bit of a channel given -1.
C9_SerializedServos ==
    (serialized /\ AllIdle) =>
        /\ \A i \in 0..3 : Bit(mem[REG_SERVO_ENABLE], i) = expected[i]
        /\ ~clobbered

\* channel 0 was set by a serialized call on a device that started with
\* mask 10 (no call starts from 11: see ConcMasks)
C9_Witness ==
    /\ serialized
    /\ AllIdle
    /\ ret.kind = "value"
    /\ ret.val = <<TRUE, TRUE, FALSE, TRUE>>
    /\ mem[REG_SERVO_ENABLE] = 11
    /\ expected = [i \in 0..3 |-> IF i = 2 THEN 0 ELSE 1]

\* C9, second half: unserialized calls can interleave so that one call's
\* write-back overwrites a bit for whose channel that call was given -1.
\* LostUpdate is reachable: TLC finds NoLostUpdate violated under SpecConc.
LostUpdate == ~serialized /\ AllIdle /\ clobbered
NoLostUpdate == ~LostUpdate

\* C10: no set_servo_speed / set_servo_target call changes any field that
\* get_motor_status returns for any motor channel (the servo registers are
\* disjoint from every motor block).
C10_ServoWritesLeaveMotors ==
    [][(call.op = "none" /\ call'.op \in {"set_servo_speed", "set_servo_target"}) =>
         \A m \in 1..4 : MotorStatus(mem', m) = MotorStatus(mem, m)]_vars

====
